---- MODULE Spec2Model ----
(***************************************************************************)
(* A model of pkg/cluster/tekton/collector/collector_s3.go: the S3         *)
(* collector of finished tekton pipeline runs.                             *)
(*                                                                         *)
(*   Collect            the collect-then-delete workflow, its merge worker *)
(*                      goroutine and the io.Pipe between them             *)
(*   GetPipelineRun,    the read path (object store first, orchestrator    *)
(*   GetPipelineRunLog  second)                                            *)
(*   cutByteInMiddle    the truncation of the audit line, on Go slices     *)
(*                      (length, capacity, shared backing array)           *)
(*   getPathForPr,      the storage keys, on explicit identifying fields   *)
(*   getPathForPrLog                                                       *)
(*                                                                         *)
(* The object store (s3.Interface) and the orchestrator (tekton.Interface) *)
(* are external: every call to them returns any outcome their interface    *)
(* allows.                                                                 *)
(***************************************************************************)
EXTENDS Integers, Sequences, FiniteSets, TLC

VARIABLES
    pc,          \* position of the caller inside Collect ("idle" between calls)
    callNo,      \* number of Collect calls started so far
    loc,         \* the locals of the running Collect call
    ops,         \* the calls the running Collect made (store, orchestrator, json), in order
    rets,        \* what each finished Collect call returned, in call order
    wk,          \* the merge worker goroutine of each Collect call
    store,       \* the object store: key -> object
    auditTrail,  \* the lines appended to the local audit trail (c.logger)
    runExists,   \* the orchestrator still holds the pipeline run
    now,         \* the clock's month, what time.Now() reads
    rd,          \* what the last read-path call did and returned
    cut,         \* the last cutByteInMiddle call on explicit bytes
    keys         \* the last computation of storage keys on explicit identifying fields

vars == <<pc, callNo, loc, ops, rets, wk, store, auditTrail, runExists, now, rd, cut, keys>>

---------------------------------------------------------------------------
(* Bounds of the model *)

MaxCalls == 2      \* Collect calls in one behaviour of SpecTwice
ShortLines == 1    \* line events per call where the stream is short
MaxLines == 3      \* line events of the one call of Spec
MaxErrs == 1       \* error events per call
MaxTicks == 1      \* month boundaries the clock crosses
MaxLen == 5        \* len(data) of cutByteInMiddle's input
MaxSlack == 2      \* cap(data) - len(data) of cutByteInMiddle's input

---------------------------------------------------------------------------
(* Program constants *)

_mb == 1024 * 1024

_limitSize == (_mb * 5) \div 2

EOFLOG == "EOFLOG"

Nil == "nil"

---------------------------------------------------------------------------
(* Helpers *)

SeqsUpTo(S, n) == UNION {[1..k -> S] : k \in 0..n}

---------------------------------------------------------------------------
(* The run Collect is called for, and its metadata *)

Run ==
    [Name |-> "build-42", CIEventID |-> "ci-42", Result |-> "ok",
     StartTime |-> "10:00", CompletionTime |-> "10:05"]

HorizonMetaData ==
    [Application |-> "shop", ApplicationID |-> "7", Cluster |-> "prod", ClusterID |-> "3"]

resolveObjMetadata(pr, hmd) ==
    [Application |-> hmd.Application, ApplicationID |-> hmd.ApplicationID,
     Cluster |-> hmd.Cluster, ClusterID |-> hmd.ClusterID,
     PipelineRun |-> [Name |-> pr.Name, Result |-> pr.Result,
                      StartTime |-> pr.StartTime, CompletionTime |-> pr.CompletionTime]]

Bucket == "horizon-bucket"

---------------------------------------------------------------------------
(* Storage keys: getPathForPr, getPathForPrLog *)

MonthOfYear == <<"01", "02", "03", "04", "05", "06", "07", "08", "09", "10", "11", "12">>

\* time.Now().Format("200601") when the clock is in month m of 2024
timeStr(m) == "2024" \o MonthOfYear[m]

getPathForPr(metadata, m) ==
    timeStr(m) \o "/pr/" \o metadata.Application \o "-" \o metadata.ApplicationID
        \o "/" \o metadata.Cluster \o "-" \o metadata.ClusterID
        \o "/" \o metadata.PipelineRun.Name

\* a faulty getPathForPrLog, with the segment of getPathForPr; C11 fails on it
getPathForPrLogAsPr(metadata, m) ==
    timeStr(m) \o "/pr/" \o metadata.Application \o "-" \o metadata.ApplicationID
        \o "/" \o metadata.Cluster \o "-" \o metadata.ClusterID
        \o "/" \o metadata.PipelineRun.Name

getPathForPrLog(metadata, m) ==
    timeStr(m) \o "/pr-log/" \o metadata.Application \o "-" \o metadata.ApplicationID
        \o "/" \o metadata.Cluster \o "-" \o metadata.ClusterID
        \o "/" \o metadata.PipelineRun.Name

\* s3.GetSignedObjectURL on success: an URL of the store's making for the key
SignedURL(key) == "https://s3/" \o key \o "?sig"

\* the values an identifying field takes where keys are computed on explicit
\* fields: a plain name, a name with a '-' and a name with a '/'
FieldValues == {"a", "a-a", "a/a"}

\* the identifying fields of the run of Collect: application "shop"/ID "7",
\* cluster "prod"/ID "3", run "build-42"
RunIds ==
    [Application |-> HorizonMetaData.Application, ApplicationID |-> HorizonMetaData.ApplicationID,
     Cluster |-> HorizonMetaData.Cluster, ClusterID |-> HorizonMetaData.ClusterID,
     Name |-> Run.Name]

\* the identifying fields of a run: metadata.Application, .ApplicationID,
\* .Cluster, .ClusterID and .PipelineRun.Name
IdFields ==
    [Application : FieldValues, ApplicationID : FieldValues, Cluster : FieldValues,
     ClusterID : FieldValues, Name : FieldValues] \cup {RunIds}

\* the metadata of a run with the identifying fields ids
MetaOf(ids) ==
    resolveObjMetadata([Run EXCEPT !.Name = ids.Name],
                       [Application |-> ids.Application, ApplicationID |-> ids.ApplicationID,
                        Cluster |-> ids.Cluster, ClusterID |-> ids.ClusterID])

NoKeys ==
    [a |-> RunIds, b |-> RunIds, month |-> 1, phase |-> "none", pr |-> <<>>, log |-> <<>>]

---------------------------------------------------------------------------
(* The merge worker of collectLog: events and their rendering *)

Hello == [src |-> "log", Task |-> "t1", Step |-> "s1", Log |-> "hello"]

World == [src |-> "log", Task |-> "t1", Step |-> "s2", Log |-> "world"]

\* the value after the last line of a step
Sentinel == [src |-> "log", Task |-> "", Step |-> "", Log |-> EOFLOG]

LogEvents == {Hello, World, Sentinel}

ErrEvents == {[src |-> "err", Task |-> "", Step |-> "", Log |-> "boom"]}

\* a faulty FormatLog, of format "[%s:%s] %s\n"; C3 fails on it
FormatLogTight(l) ==
    IF l.Log = EOFLOG
    THEN "\n"
    ELSE "[" \o l.Task \o ":" \o l.Step \o "] " \o l.Log \o "\n"

\* line 334-338: what the worker writes for a value received from logC
FormatLog(l) ==
    IF l.Log = EOFLOG
    THEN "\n"
    ELSE "[" \o l.Task \o " : " \o l.Step \o "] " \o l.Log \o "\n"

\* line 344: what the worker writes for a value received from errC
FormatErr(e) == e.Log \o "\n"

\* a faulty LoopCond, with && for ||; C2 fails on it
LoopCondBoth(w) == w.logC /\ w.errC

\* a faulty LoopCond, which ends the loop when logC is closed; C13 fails on it
LoopCondLogOnly(w) == w.logC

\* a faulty LoopCond, which ends the loop when errC is closed; C14 fails on it
LoopCondErrOnly(w) == w.errC

\* line 327: the condition of the worker's for loop
LoopCond(w) == w.logC \/ w.errC

NoWorker ==
    [st |-> "none", logC |-> FALSE, errC |-> FALSE,
     logScript |-> <<>>, errScript |-> <<>>, logClosed |-> FALSE, errClosed |-> FALSE,
     pending |-> "", wClosed |-> FALSE,
     received |-> <<>>, sentLog |-> <<>>, sentErr |-> <<>>]

\* line 324-325: io.Pipe() and the go statement; ls and es are what the two
\* upstream producers will deliver before they close their channels
SpawnWorker(ls, es) ==
    [NoWorker EXCEPT !.st = "select", !.logC = TRUE, !.errC = TRUE,
                     !.logScript = ls, !.errScript = es,
                     !.sentLog = ls, !.sentErr = es]

---------------------------------------------------------------------------
(* Collect: the caller's side *)

Meta == resolveObjMetadata(Run, HorizonMetaData)

NoLoc ==
    [logPath |-> "", logURL |-> "", buf |-> "", prPath |-> "", prURL |-> "",
     logMonth |-> 0, prMonth |-> 0, goneAtStart |-> FALSE]

\* what tekton.GetPipelineRunLog may answer (the orchestrator is external; the
\* caller passes the run object it holds, so the stream may open for a run that
\* the orchestrator no longer lists)
GetLogOutcomes(exists) == IF exists THEN {"ok", "err"} ELSE {"ok", "notfound", "err"}

\* what tekton.DeletePipelineRun may answer
DeleteOutcomes(exists) == IF exists THEN {"ok", "err"} ELSE {"notfound", "err"}

\* the outcomes of a store call or of json.Marshal
CallOutcomes == {"ok", "err"}

\* line 154-156: len of json.Marshal(logStruct), the audit record
\* {"object":{"url":prURL,"metadata":{...}},"log":{"url":logURL,"content":c}}
\* for a metadata object of metaLen bytes and strings that need no escaping
\* but the content's line feeds, which json writes as two bytes each
MarshalLen(prURL, metaLen, logURL, contentLen, lineFeeds) ==
    Len("{\"object\":{\"url\":\"") + Len(prURL) + Len("\",\"metadata\":") + metaLen
        + Len("},\"log\":{\"url\":\"") + Len(logURL) + Len("\",\"content\":\"")
        + contentLen + lineFeeds + Len("\"}}")

\* len of json.Marshal(metadata): the field names and punctuation of ObjectMeta
\* around the values of the run
MetaLen(metadata) ==
    Len("{\"application\":\"\",\"applicationID\":\"\",\"cluster\":\"\",\"clusterID\":\"\"")
        + Len(",\"pipelineRun\":{\"name\":\"\",\"result\":\"\",\"startTime\":\"\"")
        + Len(",\"completionTime\":\"\"}}")
        + Len(metadata.Application) + Len(metadata.ApplicationID)
        + Len(metadata.Cluster) + Len(metadata.ClusterID)
        + Len(metadata.PipelineRun.Name) + Len(metadata.PipelineRun.Result)
        + Len(metadata.PipelineRun.StartTime) + Len(metadata.PipelineRun.CompletionTime)

\* a faulty Aborts, which lets a failed put of the snapshot through; C1 fails on it
AbortsButPutPr(step, out) == out # "ok" /\ step # "putPr"

\* a faulty Aborts, which lets a failed signing of the log URL through; C6 fails on it
AbortsButSignLog(step, out) == out # "ok" /\ step # "signLog"

\* a faulty Aborts, which lets a failed signing of the snapshot URL through; C16
\* fails on it
AbortsButSignPr(step, out) == out # "ok" /\ step # "signPr"

\* `if err != nil { return nil, err }` after each step of Collect, collectLog
\* and collectObject
Aborts(step, out) == out # "ok"

\* line 164-171
CollectResultOf(l, metadata) ==
    [Bucket |-> Bucket, LogObject |-> l.logPath, PrObject |-> l.prPath,
     Result |-> metadata.PipelineRun.Result,
     StartTime |-> metadata.PipelineRun.StartTime,
     CompletionTime |-> metadata.PipelineRun.CompletionTime]

\* a faulty DeleteReturn, which propagates NotFound like any other error; C5 fails on it
DeleteReturnStrict(out, cr) ==
    IF out = "ok" THEN [res |-> <<cr>>, err |-> Nil]
    ELSE [res |-> <<>>, err |-> "DeleteFailed"]

\* a faulty DeleteReturn, which answers NotFound with (nil, nil); C4 fails on it
DeleteReturnNilNil(out, cr) ==
    IF out = "ok" THEN [res |-> <<cr>>, err |-> Nil]
    ELSE IF out = "notfound" THEN [res |-> <<>>, err |-> Nil]
    ELSE [res |-> <<>>, err |-> "DeleteFailed"]

\* line 174-184: what Collect returns after DeletePipelineRun answered out
DeleteReturn(out, cr) ==
    IF out = "ok" THEN [res |-> <<cr>>, err |-> Nil]
    ELSE IF out = "notfound" THEN [res |-> <<cr>>, err |-> Nil]
    ELSE [res |-> <<>>, err |-> "DeleteFailed"]

\* line events whose text is too long to spell out: Log names the text and
\* TextLen gives its length in bytes (plain ASCII, which json writes as it is)
BulkUnder == [src |-> "log", Task |-> "t1", Step |-> "s3", Log |-> "under"]

BulkAt == [src |-> "log", Task |-> "t1", Step |-> "s3", Log |-> "limit"]

\* the length of text with which the audit record of a call that merged this
\* one line event is one byte short of _limitSize
UnderLen ==
    _limitSize - 1
        - MarshalLen(SignedURL(getPathForPr(Meta, 1)), MetaLen(Meta),
                     SignedURL(getPathForPrLog(Meta, 1)),
                     Len(FormatLog([BulkUnder EXCEPT !.Log = ""])), 1)

\* len(l.Log)
TextLen(e) ==
    IF e = BulkUnder THEN UnderLen
    ELSE IF e = BulkAt THEN UnderLen + 1
    ELSE Len(e.Log)

RECURSIVE Unwritten(_)
\* the bytes of the entries of the events rcv that the model does not spell out
Unwritten(rcv) ==
    IF rcv = <<>> THEN 0
    ELSE TextLen(Head(rcv)) - Len(Head(rcv).Log) + Unwritten(Tail(rcv))

\* what json.Marshal(logStruct) at line 155 may answer: it encodes two URLs
\* and the log text, which are strings, and the metadata that
\* json.Marshal(object) at line 287 has encoded in this call without an
\* error, so it returns no error here
MarshalLogOutcomes == {"ok"}

\* a faulty cutLen, which also leaves a slice of limit bytes as it is; C18 fails on it
cutLenInclusive(l, limit, begin, end) ==
    IF limit > 0 /\ l <= limit THEN l ELSE begin + 6 + (l - end)

\* cutByteInMiddle on lengths alone: len of the slice it returns for a slice of
\* length l (the audit line is far too long to model byte by byte)
cutLen(l, limit, begin, end) ==
    IF limit > 0 /\ l < limit THEN l ELSE begin + 6 + (l - end)

Invoke(op, out) == ops' = Append(ops, [op |-> op, out |-> out])

Return(res, err) ==
    /\ rets' = Append(rets, [res |-> res, err |-> err, call |-> callNo,
                             logMonth |-> loc.logMonth, prMonth |-> loc.prMonth,
                             goneAtStart |-> loc.goneAtStart])
    /\ pc' = "idle"

Goto(p) ==
    /\ pc' = p
    /\ rets' = rets

\* line 132-138
CollectStart(maxCalls) ==
    /\ pc = "idle"
    /\ callNo < maxCalls
    /\ callNo' = callNo + 1
    /\ pc' = "openLog"
    /\ loc' = [NoLoc EXCEPT !.goneAtStart = ~runExists]
    /\ ops' = <<>>
    /\ UNCHANGED <<rets, wk, store, auditTrail, runExists, now, rd, cut, keys>>

\* line 317-347
OpenLog(events, maxLines, maxErrs) ==
    /\ pc = "openLog"
    /\ \E out \in GetLogOutcomes(runExists) :
        /\ Invoke("GetPipelineRunLog", out)
        /\ IF Aborts("openLog", out)
           THEN /\ Return(<<>>, IF out = "notfound" THEN "NotFound" ELSE "GetFailed")
                /\ wk' = wk
           ELSE /\ Goto("signLog")
                /\ \E ls \in SeqsUpTo(events, maxLines), es \in SeqsUpTo(ErrEvents, maxErrs) :
                      wk' = [wk EXCEPT ![callNo] = SpawnWorker(ls, es)]
    /\ UNCHANGED <<callNo, loc, store, auditTrail, runExists, now, rd, cut, keys>>

\* line 349-354
SignLog ==
    /\ pc = "signLog"
    /\ \E out \in CallOutcomes :
        LET logPath == getPathForPrLog(Meta, now) IN
        /\ Invoke("GetSignedObjectURL:log", out)
        /\ IF Aborts("signLog", out)
           THEN /\ Return(<<>>, "S3SignFailed")
                /\ loc' = [loc EXCEPT !.logPath = logPath, !.logMonth = now]
           ELSE /\ Goto("drain")
                /\ loc' = [loc EXCEPT !.logPath = logPath, !.logMonth = now,
                                      !.logURL = SignedURL(logPath)]
    /\ UNCHANGED <<callNo, wk, store, auditTrail, runExists, now, rd, cut, keys>>

\* line 356, one Read of ioutil.ReadAll: it takes the bytes of the blocked Write
ReaderRead ==
    /\ pc = "drain"
    /\ wk[callNo].st = "blocked"
    /\ loc' = [loc EXCEPT !.buf = loc.buf \o wk[callNo].pending]
    /\ wk' = [wk EXCEPT ![callNo].st = "select", ![callNo].pending = ""]
    /\ UNCHANGED <<pc, callNo, ops, rets, store, auditTrail, runExists, now, rd, cut, keys>>

\* line 356-359: Read reports io.EOF once the write side is closed; ReadAll
\* returns the bytes with no error (w.Close is the only close of the pipe, so
\* the ReadFailed branch is never taken)
ReaderEOF ==
    /\ pc = "drain"
    /\ wk[callNo].wClosed
    /\ Goto("putLog")
    /\ UNCHANGED <<callNo, loc, ops, wk, store, auditTrail, runExists, now, rd, cut, keys>>

\* line 360-367
PutLog ==
    /\ pc = "putLog"
    /\ \E out \in CallOutcomes :
        /\ Invoke("PutObject:log", out)
        /\ store' = IF out = "ok"
                    THEN (loc.logPath :> [kind |-> "text", text |-> loc.buf]) @@ store
                    ELSE store
        /\ IF Aborts("putLog", out)
           THEN Return(<<>>, "S3PutObjFailed")
           ELSE Goto("marshalObj")
    /\ UNCHANGED <<callNo, loc, wk, auditTrail, runExists, now, rd, cut, keys>>

\* line 283-290
MarshalObj ==
    /\ pc = "marshalObj"
    /\ \E out \in CallOutcomes :
        /\ Invoke("json.Marshal:object", out)
        /\ IF Aborts("marshalObj", out)
           THEN Return(<<>>, "ParamInvalid")
           ELSE Goto("signPr")
    /\ UNCHANGED <<callNo, loc, wk, store, auditTrail, runExists, now, rd, cut, keys>>

\* line 291-296
SignPr ==
    /\ pc = "signPr"
    /\ \E out \in CallOutcomes :
        LET prPath == getPathForPr(Meta, now) IN
        /\ Invoke("GetSignedObjectURL:pr", out)
        /\ IF Aborts("signPr", out)
           THEN /\ Return(<<>>, "S3SignFailed")
                /\ loc' = [loc EXCEPT !.prPath = prPath, !.prMonth = now]
           ELSE /\ Goto("putPr")
                /\ loc' = [loc EXCEPT !.prPath = prPath, !.prMonth = now,
                                      !.prURL = SignedURL(prPath)]
    /\ UNCHANGED <<callNo, wk, store, auditTrail, runExists, now, rd, cut, keys>>

\* line 297-303
PutPr ==
    /\ pc = "putPr"
    /\ \E out \in CallOutcomes :
        /\ Invoke("PutObject:pr", out)
        /\ store' = IF out = "ok"
                    THEN (loc.prPath :> [kind |-> "envelope", Metadata |-> Meta,
                                         PipelineRun |-> Run]) @@ store
                    ELSE store
        /\ IF Aborts("putPr", out)
           THEN Return(<<>>, "S3PutObjFailed")
           ELSE Goto("audit")
    /\ UNCHANGED <<callNo, loc, wk, auditTrail, runExists, now, rd, cut, keys>>

\* line 154-162
Audit ==
    /\ pc = "audit"
    /\ \E out \in MarshalLogOutcomes :
        /\ Invoke("json.Marshal:logStruct", out)
        /\ IF Aborts("marshalLog", out)
           THEN /\ Return(<<>>, "ParamInvalid")
                /\ auditTrail' = auditTrail
           ELSE
             /\ Goto("delete")
             /\ LET n == MarshalLen(loc.prURL, MetaLen(Meta), loc.logURL,
                                    Len(loc.buf) + Unwritten(wk[callNo].received),
                                    Len(wk[callNo].received))
                IN auditTrail' = Append(auditTrail,
                       [call |-> callNo, marshalled |-> n,
                        len |-> cutLen(n, _limitSize, _mb, n - _mb),
                        prURL |-> loc.prURL, logURL |-> loc.logURL,
                        content |-> loc.buf])
    /\ UNCHANGED <<callNo, loc, wk, store, runExists, now, rd, cut, keys>>

\* line 164-184
Delete ==
    /\ pc = "delete"
    /\ \E out \in DeleteOutcomes(runExists) :
        LET r == DeleteReturn(out, CollectResultOf(loc, Meta)) IN
        /\ Invoke("DeletePipelineRun", out)
        /\ runExists' = IF out = "ok" THEN FALSE ELSE runExists
        /\ Return(r.res, r.err)
    /\ UNCHANGED <<callNo, loc, wk, store, auditTrail, now, rd, cut, keys>>

---------------------------------------------------------------------------
(* collectLog's goroutine (line 325-347) and the two upstream producers *)

Calls == DOMAIN wk

\* line 329, ok: the select takes the next value of logC
WorkerRecvLog(c) ==
    /\ wk[c].st = "select"
    /\ LoopCond(wk[c])
    /\ wk[c].logC
    /\ wk[c].logScript # <<>>
    /\ LET l == Head(wk[c].logScript) IN
       wk' = [wk EXCEPT ![c].logScript = Tail(wk[c].logScript),
                        ![c].received = Append(wk[c].received, l),
                        ![c].pending = FormatLog(l),
                        ![c].st = "write"]
    /\ UNCHANGED <<pc, callNo, loc, ops, rets, store, auditTrail, runExists, now, rd, cut, keys>>

\* line 329-333, !ok: logC is closed and drained
WorkerLogClosed(c) ==
    /\ wk[c].st = "select"
    /\ LoopCond(wk[c])
    /\ wk[c].logC
    /\ wk[c].logScript = <<>>
    /\ wk[c].logClosed
    /\ wk' = [wk EXCEPT ![c].logC = FALSE]
    /\ UNCHANGED <<pc, callNo, loc, ops, rets, store, auditTrail, runExists, now, rd, cut, keys>>

\* line 339, ok: the select takes the next value of errC
WorkerRecvErr(c) ==
    /\ wk[c].st = "select"
    /\ LoopCond(wk[c])
    /\ wk[c].errC
    /\ wk[c].errScript # <<>>
    /\ LET e == Head(wk[c].errScript) IN
       wk' = [wk EXCEPT ![c].errScript = Tail(wk[c].errScript),
                        ![c].received = Append(wk[c].received, e),
                        ![c].pending = FormatErr(e),
                        ![c].st = "write"]
    /\ UNCHANGED <<pc, callNo, loc, ops, rets, store, auditTrail, runExists, now, rd, cut, keys>>

\* line 339-343, !ok: errC is closed and drained
WorkerErrClosed(c) ==
    /\ wk[c].st = "select"
    /\ LoopCond(wk[c])
    /\ wk[c].errC
    /\ wk[c].errScript = <<>>
    /\ wk[c].errClosed
    /\ wk' = [wk EXCEPT ![c].errC = FALSE]
    /\ UNCHANGED <<pc, callNo, loc, ops, rets, store, auditTrail, runExists, now, rd, cut, keys>>

\* a faulty WorkerWrite, on a pipe with a buffer: Write returns with no Read;
\* C15 fails on it
WorkerWriteBuffered(c) ==
    /\ wk[c].st = "write"
    /\ wk' = [wk EXCEPT ![c].st = "select"]
    /\ UNCHANGED <<pc, callNo, loc, ops, rets, store, auditTrail, runExists, now, rd, cut, keys>>

\* line 335, 338, 344: w.Write is entered; it returns when a Read has taken the bytes
WorkerWrite(c) ==
    /\ wk[c].st = "write"
    /\ wk' = [wk EXCEPT ![c].st = "blocked"]
    /\ UNCHANGED <<pc, callNo, loc, ops, rets, store, auditTrail, runExists, now, rd, cut, keys>>

\* line 326-327: the loop ends and the deferred w.Close runs
WorkerExit(c) ==
    /\ wk[c].st = "select"
    /\ ~LoopCond(wk[c])
    /\ wk' = [wk EXCEPT ![c].st = "done", ![c].wClosed = TRUE]
    /\ UNCHANGED <<pc, callNo, loc, ops, rets, store, auditTrail, runExists, now, rd, cut, keys>>

\* the producer of logC closes it after its last value was taken
UpstreamCloseLog(c) ==
    /\ wk[c].st # "none"
    /\ wk[c].logScript = <<>>
    /\ ~wk[c].logClosed
    /\ wk' = [wk EXCEPT ![c].logClosed = TRUE]
    /\ UNCHANGED <<pc, callNo, loc, ops, rets, store, auditTrail, runExists, now, rd, cut, keys>>

\* the producer of errC closes it after its last value was taken
UpstreamCloseErr(c) ==
    /\ wk[c].st # "none"
    /\ wk[c].errScript = <<>>
    /\ ~wk[c].errClosed
    /\ wk' = [wk EXCEPT ![c].errClosed = TRUE]
    /\ UNCHANGED <<pc, callNo, loc, ops, rets, store, auditTrail, runExists, now, rd, cut, keys>>

\* one step of the goroutine of call c
WorkerStep(c) ==
    \/ WorkerRecvLog(c)
    \/ WorkerLogClosed(c)
    \/ WorkerRecvErr(c)
    \/ WorkerErrClosed(c)
    \/ WorkerWrite(c)
    \/ WorkerExit(c)

Worker == \E c \in Calls : WorkerStep(c)

Upstream ==
    \E c \in Calls :
        \/ UpstreamCloseLog(c)
        \/ UpstreamCloseErr(c)

---------------------------------------------------------------------------
(* The environment: the clock, and the orchestrator losing the run *)

\* the clock crosses a month boundary
Tick ==
    /\ now < 1 + MaxTicks
    /\ now' = now + 1
    /\ UNCHANGED <<pc, callNo, loc, ops, rets, wk, store, auditTrail, runExists, rd, cut, keys>>

\* the run is removed from the orchestrator by someone else
ExternalDelete ==
    /\ runExists
    /\ runExists' = FALSE
    /\ UNCHANGED <<pc, callNo, loc, ops, rets, wk, store, auditTrail, now, rd, cut, keys>>

---------------------------------------------------------------------------
(* The read path: GetPipelineRunLog, GetPipelineRun *)

\* the run records (prmodels.Pipelinerun) a caller may pass: each key is
\* missing, or a key Collect could have returned this month; the snapshot key
\* may also be a key that holds no snapshot
RunRecords ==
    [PrObject : {"", getPathForPr(Meta, now), getPathForPrLog(Meta, now)},
     LogObject : {"", getPathForPrLog(Meta, now)},
     CIEventID : {Run.CIEventID}]

NoRead == [op |-> "none", pr |-> <<>>, calls |-> <<>>, res |-> <<>>, err |-> Nil]

\* what s3.GetObject may answer for a key
GetObjectOutcomes(key) == IF key \in DOMAIN store THEN {"ok", "err"} ELSE {"nosuchkey", "err"}

\* what tekton.GetPipelineRunByID may answer
GetRunOutcomes(exists) == IF exists THEN {"ok", "err"} ELSE {"notfound", "err"}

\* a faulty LogFromS3, which decides by the log key; C8 fails on it
LogFromS3ByLogKey(pr) == pr.LogObject # ""

\* line 192: the condition under which GetPipelineRunLog reads the object store
LogFromS3(pr) == pr.PrObject # ""

\* a faulty RunFromS3, which falls back to the orchestrator when the store lacks
\* the key; C7 fails on it
RunFromS3IfStored(pr) == pr.PrObject # "" /\ pr.PrObject \in DOMAIN store

\* line 255: the condition under which GetPipelineRun reads the object store
RunFromS3(pr) == pr.PrObject # ""

\* line 213-227
getPipelineRunLog(logObject, out) ==
    IF out = "ok" THEN [res |-> <<store[logObject]>>, err |-> Nil]
    ELSE IF out = "nosuchkey" THEN [res |-> <<>>, err |-> "NotFound:PipelinerunLog"]
    ELSE [res |-> <<>>, err |-> "S3GetObjFailed"]

\* line 229-247; json.Unmarshal into *Object fails on a body that is no envelope
GetPipelineRunObject(object, out) ==
    IF out = "ok"
    THEN IF store[object].kind = "envelope"
         THEN [res |-> <<store[object]>>, err |-> Nil]
         ELSE [res |-> <<>>, err |-> "ParamInvalid"]
    ELSE IF out = "nosuchkey" THEN [res |-> <<>>, err |-> "NotFound:PipelinerunObj"]
    ELSE [res |-> <<>>, err |-> "S3GetObjFailed"]

\* line 187-211
GetPipelineRunLog ==
    /\ \E pr \in RunRecords :
        IF LogFromS3(pr)
        THEN \E out \in GetObjectOutcomes(pr.LogObject) :
                LET r == getPipelineRunLog(pr.LogObject, out) IN
                rd' = [op |-> "GetPipelineRunLog", pr |-> pr,
                       calls |-> <<[svc |-> "s3.GetObject", arg |-> pr.LogObject, out |-> out]>>,
                       res |-> IF r.err = Nil
                               THEN <<[kind |-> "LogBytes", body |-> r.res[1]]>>
                               ELSE <<>>,
                       err |-> r.err]
        ELSE \E out \in CallOutcomes :
                rd' = [op |-> "GetPipelineRunLog", pr |-> pr,
                       calls |-> <<[svc |-> "tekton.GetPipelineRunLogByID",
                                    arg |-> pr.CIEventID, out |-> out]>>,
                       res |-> IF out = "ok"
                               THEN <<[kind |-> "Channels", id |-> pr.CIEventID]>>
                               ELSE <<>>,
                       err |-> IF out = "ok" THEN Nil ELSE "GetLogFailed"]
    /\ UNCHANGED <<pc, callNo, loc, ops, rets, wk, store, auditTrail, runExists, now, cut, keys>>

\* line 249-272
GetPipelineRun ==
    /\ \E pr \in RunRecords :
        IF RunFromS3(pr)
        THEN \E out \in GetObjectOutcomes(pr.PrObject) :
                LET r == GetPipelineRunObject(pr.PrObject, out) IN
                rd' = [op |-> "GetPipelineRun", pr |-> pr,
                       calls |-> <<[svc |-> "s3.GetObject", arg |-> pr.PrObject, out |-> out]>>,
                       res |-> IF r.err = Nil THEN <<r.res[1].PipelineRun>> ELSE <<>>,
                       err |-> r.err]
        ELSE \E out \in GetRunOutcomes(runExists) :
                rd' = [op |-> "GetPipelineRun", pr |-> pr,
                       calls |-> <<[svc |-> "tekton.GetPipelineRunByID",
                                    arg |-> pr.CIEventID, out |-> out]>>,
                       res |-> IF out = "ok" THEN <<Run>> ELSE <<>>,
                       err |-> IF out = "err" THEN "GetRunFailed" ELSE Nil]
    /\ UNCHANGED <<pc, callNo, loc, ops, rets, wk, store, auditTrail, runExists, now, cut, keys>>

---------------------------------------------------------------------------
(* cutByteInMiddle on explicit bytes *)

\* the bytes a payload is made of; '.' is not among them
DataBytes == {97, 98}

Dot == 46

\* []byte("......")
Marker == <<Dot, Dot, Dot, Dot, Dot, Dot>>

NoCut ==
    [arr |-> <<>>, len |-> 0, limit |-> 0, begin |-> 0, end |-> 0,
     phase |-> "none", panic |-> FALSE, out |-> <<>>]

\* a faulty cutByteInMiddle, which leaves the marker out; C9 fails on it
cutByteInMiddleNoMarker(arr, l, limit, begin, end) ==
    IF limit > 0 /\ l < limit
    THEN [panic |-> FALSE, out |-> SubSeq(arr, 1, l)]
    ELSE IF begin < 0 \/ begin > Len(arr) \/ end < 0 \/ end > l
    THEN [panic |-> TRUE, out |-> <<>>]
    ELSE [panic |-> FALSE, out |-> SubSeq(arr, 1, begin) \o SubSeq(arr, end + 1, l)]

\* line 386-397. data is the slice arr[0:l] of the backing array arr, so
\* cap(data) = Len(arr). data[:begin] may reach up to cap(data), data[end:] up to
\* len(data); outside these Go panics. The first append writes the marker into
\* arr itself when begin + 6 <= cap(data), so b2, which shares arr, is read after
\* that write; otherwise append copies b1 into a new array and arr is untouched.
\* The second append copies b2 as it then is, in place or not.
cutByteInMiddle(arr, l, limit, begin, end) ==
    IF limit > 0 /\ l < limit
    THEN [panic |-> FALSE, out |-> SubSeq(arr, 1, l)]
    ELSE IF begin < 0 \/ begin > Len(arr) \/ end < 0 \/ end > l
    THEN [panic |-> TRUE, out |-> <<>>]
    ELSE LET inPlace == begin + Len(Marker) <= Len(arr)
             arr1 == IF inPlace
                     THEN [i \in 1..Len(arr) |->
                             IF begin < i /\ i <= begin + Len(Marker)
                             THEN Marker[i - begin] ELSE arr[i]]
                     ELSE arr
             b1 == SubSeq(arr, 1, begin) \o Marker
             b2 == SubSeq(arr1, end + 1, l)
         IN [panic |-> FALSE, out |-> b1 \o b2]

\* one call of cutByteInMiddle on the inputs the behaviour started with
CutCall ==
    /\ cut.phase = "in"
    /\ LET r == cutByteInMiddle(cut.arr, cut.len, cut.limit, cut.begin, cut.end) IN
       cut' = [cut EXCEPT !.phase = "out", !.panic = r.panic, !.out = r.out]
    /\ UNCHANGED <<pc, callNo, loc, ops, rets, wk, store, auditTrail, runExists, now, rd, keys>>

---------------------------------------------------------------------------
(* getPathForPr and getPathForPrLog on explicit identifying fields *)

\* both keys of the runs keys.a and keys.b, computed in the month keys.month
KeyCall ==
    /\ keys.phase = "in"
    /\ keys' = [keys EXCEPT
                   !.phase = "out",
                   !.pr = <<getPathForPr(MetaOf(keys.a), keys.month),
                            getPathForPr(MetaOf(keys.b), keys.month)>>,
                   !.log = <<getPathForPrLog(MetaOf(keys.a), keys.month),
                             getPathForPrLog(MetaOf(keys.b), keys.month)>>]
    /\ UNCHANGED <<pc, callNo, loc, ops, rets, wk, store, auditTrail, runExists, now, rd, cut>>

---------------------------------------------------------------------------
(* Specifications *)

Init ==
    /\ pc = "idle"
    /\ callNo = 0
    /\ loc = NoLoc
    /\ ops = <<>>
    /\ rets = <<>>
    /\ wk = [c \in 1..MaxCalls |-> NoWorker]
    /\ store = <<>>
    /\ auditTrail = <<>>
    /\ runExists = TRUE
    /\ now = 1
    /\ rd = NoRead
    /\ cut = NoCut
    /\ keys = NoKeys

\* one step of the goroutine that called Collect, past the opening of the log
Caller ==
    \/ SignLog
    \/ ReaderRead
    \/ ReaderEOF
    \/ PutLog
    \/ MarshalObj
    \/ SignPr
    \/ PutPr
    \/ Audit
    \/ Delete

CollectSteps ==
    \/ Caller
    \/ Worker
    \/ Upstream

\* one Collect call on streams of up to MaxLines line events
Next ==
    \/ CollectStart(1)
    \/ OpenLog(LogEvents, MaxLines, MaxErrs)
    \/ CollectSteps
    \/ ExternalDelete

Spec == Init /\ [][Next]_vars

\* Collect called up to MaxCalls times, one call after the other, on short streams
NextTwice ==
    \/ CollectStart(MaxCalls)
    \/ OpenLog(LogEvents, ShortLines, MaxErrs)
    \/ CollectSteps
    \/ Tick

SpecTwice == Init /\ [][NextTwice]_vars

\* the state a first Collect call leaves that signed the log key in month m1
\* and the snapshot key in month m2, merged one line event, failed in no step
\* and deleted the run
FirstLoc(m1, m2) ==
    [NoLoc EXCEPT !.logPath = getPathForPrLog(Meta, m1), !.logMonth = m1,
                  !.logURL = SignedURL(getPathForPrLog(Meta, m1)),
                  !.buf = FormatLog(Hello),
                  !.prPath = getPathForPr(Meta, m2), !.prMonth = m2,
                  !.prURL = SignedURL(getPathForPr(Meta, m2))]

FirstOps ==
    [i \in 1..8 |->
        [op |-> <<"GetPipelineRunLog", "GetSignedObjectURL:log", "PutObject:log",
                  "json.Marshal:object", "GetSignedObjectURL:pr", "PutObject:pr",
                  "json.Marshal:logStruct", "DeletePipelineRun">>[i],
         out |-> "ok"]]

FirstRet(m1, m2) ==
    LET r == DeleteReturn("ok", CollectResultOf(FirstLoc(m1, m2), Meta)) IN
    [res |-> r.res, err |-> r.err, call |-> 1, logMonth |-> m1, prMonth |-> m2,
     goneAtStart |-> FALSE]

FirstWorker ==
    [NoWorker EXCEPT !.st = "done", !.wClosed = TRUE, !.logClosed = TRUE,
                     !.errClosed = TRUE, !.received = <<Hello>>, !.sentLog = <<Hello>>]

FirstAudit(m1, m2) ==
    LET l == FirstLoc(m1, m2)
        n == MarshalLen(l.prURL, MetaLen(Meta), l.logURL, Len(l.buf), 1)
    IN [call |-> 1, marshalled |-> n, len |-> cutLen(n, _limitSize, _mb, n - _mb),
        prURL |-> l.prURL, logURL |-> l.logURL, content |-> l.buf]

AfterFirst(m1, m2) ==
    /\ pc = "idle"
    /\ callNo = 1
    /\ loc = FirstLoc(m1, m2)
    /\ ops = FirstOps
    /\ rets = <<FirstRet(m1, m2)>>
    /\ wk = [c \in 1..MaxCalls |-> IF c = 1 THEN FirstWorker ELSE NoWorker]
    /\ store = (getPathForPr(Meta, m2) :> [kind |-> "envelope", Metadata |-> Meta,
                                           PipelineRun |-> Run])
                @@ (getPathForPrLog(Meta, m1) :> [kind |-> "text", text |-> FormatLog(Hello)])
    /\ auditTrail = <<FirstAudit(m1, m2)>>
    /\ runExists = FALSE
    /\ rd = NoRead
    /\ cut = NoCut
    /\ keys = NoKeys

\* the second Collect call for a run that a first, successful call deleted; the
\* states of InitSecond are states SpecTwice reaches (SecondUnreached*)
InitSecond ==
    \E m1, m2, m \in 1..(1 + MaxTicks) :
        /\ m1 <= m2
        /\ m2 <= m
        /\ now = m
        /\ AfterFirst(m1, m2)

NextSecond ==
    \/ CollectStart(2)
    \/ OpenLog(LogEvents, ShortLines, MaxErrs)
    \/ CollectSteps
    \/ Tick

SpecSecond == InitSecond /\ [][NextSecond]_vars

\* SpecTwice reaches the states SpecSecond starts in: each of these fails there

SecondUnreached11 == ~(now = 1 /\ AfterFirst(1, 1))

SecondUnreached12 == ~(now = 2 /\ AfterFirst(1, 2))

SecondUnreached22 == ~(now = 2 /\ AfterFirst(2, 2))

SecondUnreached112 == ~(now = 2 /\ AfterFirst(1, 1))

\* the read path beside one Collect call
NextRead ==
    \/ CollectStart(1)
    \/ OpenLog(LogEvents, ShortLines, MaxErrs)
    \/ CollectSteps
    \/ GetPipelineRunLog
    \/ GetPipelineRun

SpecRead == Init /\ [][NextRead]_vars

\* one Collect call in which every goroutine that can take a step takes one in
\* the end: the caller (the calls it makes to the store and the
\* orchestrator return), the worker of each call, and the two producers,
\* which close their channels once their values are taken
NextFair ==
    \/ CollectStart(1)
    \/ OpenLog(LogEvents, ShortLines, MaxErrs)
    \/ CollectSteps

Fairness ==
    /\ WF_vars(OpenLog(LogEvents, ShortLines, MaxErrs) \/ Caller)
    /\ \A c \in 1..MaxCalls : WF_vars(WorkerStep(c))
    /\ \A c \in 1..MaxCalls : WF_vars(UpstreamCloseLog(c)) /\ WF_vars(UpstreamCloseErr(c))

SpecFair == Init /\ [][NextFair]_vars /\ Fairness

\* one Collect call on logs whose audit record is about _limitSize bytes long
AuditEvents == {Hello, BulkUnder, BulkAt}

NextAudit ==
    \/ CollectStart(1)
    \/ OpenLog(AuditEvents, ShortLines, MaxErrs)
    \/ CollectSteps

SpecAudit == Init /\ [][NextAudit]_vars

\* cutByteInMiddle on every slice of up to MaxLen bytes with up to MaxSlack
\* bytes of spare capacity
InitCut ==
    /\ pc = "idle"
    /\ callNo = 0
    /\ loc = NoLoc
    /\ ops = <<>>
    /\ rets = <<>>
    /\ wk = [c \in 1..MaxCalls |-> NoWorker]
    /\ store = <<>>
    /\ auditTrail = <<>>
    /\ runExists = TRUE
    /\ now = 1
    /\ rd = NoRead
    /\ \E n \in 0..MaxLen, k \in 0..MaxSlack :
         \E a \in [1..(n + k) -> DataBytes], limit \in (-1)..(MaxLen + 1),
            begin \in (-1)..(n + k + 1), end \in (-1)..(n + 1) :
            cut = [NoCut EXCEPT !.arr = a, !.len = n, !.limit = limit,
                                !.begin = begin, !.end = end, !.phase = "in"]
    /\ keys = NoKeys

NextCut == CutCall

SpecCut == InitCut /\ [][NextCut]_vars

\* the keys of every two runs with identifying fields of IdFields, in every
\* month the clock reaches
InitKey ==
    /\ pc = "idle"
    /\ callNo = 0
    /\ loc = NoLoc
    /\ ops = <<>>
    /\ rets = <<>>
    /\ wk = [c \in 1..MaxCalls |-> NoWorker]
    /\ store = <<>>
    /\ auditTrail = <<>>
    /\ runExists = TRUE
    /\ now = 1
    /\ rd = NoRead
    /\ cut = NoCut
    /\ \E a \in IdFields, b \in IdFields, m \in 1..(1 + MaxTicks) :
          keys = [NoKeys EXCEPT !.a = a, !.b = b, !.month = m, !.phase = "in"]

NextKey == KeyCall

SpecKey == InitKey /\ [][NextKey]_vars

---------------------------------------------------------------------------
(* Properties of Collect *)

\* the worker of the running (or last) Collect call
W == wk[callNo]

Invoked(op) == \E i \in DOMAIN ops : ops[i].op = op

Succeeded(op) == \E i \in DOMAIN ops : ops[i].op = op /\ ops[i].out = "ok"

SucceededBefore(op, i) == \E j \in 1..(i - 1) : ops[j].op = op /\ ops[j].out = "ok"

LogStored == loc.logPath \in DOMAIN store /\ store[loc.logPath].kind = "text"

PrStored == loc.prPath \in DOMAIN store /\ store[loc.prPath].kind = "envelope"

\* the Collect call has returned
Returned == pc = "idle" /\ callNo >= 1 /\ Len(rets) = callNo

LastRet == rets[Len(rets)]

\* C1: DeletePipelineRun is invoked only after the PutObject of the log and
\* the PutObject of the snapshot of the same Collect call returned success, and
\* whenever Collect is about to delete or has asked to delete the run both
\* objects are in the store under the keys of that call.
C1_DeleteAfterBothStored ==
    /\ \A i \in DOMAIN ops :
          ops[i].op = "DeletePipelineRun" =>
             /\ SucceededBefore("PutObject:log", i)
             /\ SucceededBefore("PutObject:pr", i)
    /\ (pc = "delete" \/ Invoked("DeletePipelineRun")) => LogStored /\ PrStored

\* Collect has deleted the run
C1_Witness ==
    /\ Succeeded("DeletePipelineRun")
    /\ ~runExists
    /\ LogStored /\ PrStored

LastOp == ops[Len(ops)]

AuditedThisCall == \E i \in DOMAIN auditTrail : auditTrail[i].call = callNo

\* C4 as stated: a second Collect call for a run that the first, successful call
\* deleted returns no error and the CollectResult of the first call.
C4_Original ==
    \A j \in 2..Len(rets) :
        (rets[1].err = Nil /\ rets[j].goneAtStart) =>
           /\ rets[j].err = Nil
           /\ rets[j].res = rets[1].res

\* C4 (amended): a second Collect call for a run that the first, successful call
\* deleted repeats every step and returns the error of the first step that
\* fails, with no result; when it returns no error, DeletePipelineRun
\* reported NotFound and the CollectResult has the bucket, result, start time
\* and completion time of the first call's, and the log key (the snapshot key)
\* of the first call's exactly when that key was computed in the same
\* calendar month in both calls.
C4_SecondCollect ==
    \A j \in 2..Len(rets) :
        (rets[1].err = Nil /\ rets[j].goneAtStart) =>
           /\ rets[j].err # Nil => rets[j].res = <<>>
           /\ rets[j].err = Nil =>
                /\ Len(rets[j].res) = 1
                /\ (j = callNo /\ pc = "idle") =>
                      LastOp = [op |-> "DeletePipelineRun", out |-> "notfound"]
                /\ LET a == rets[1].res[1]
                       b == rets[j].res[1]
                   IN /\ b.Bucket = a.Bucket
                      /\ b.Result = a.Result
                      /\ b.StartTime = a.StartTime
                      /\ b.CompletionTime = a.CompletionTime
                      /\ (b.LogObject = a.LogObject) <=> (rets[j].logMonth = rets[1].logMonth)
                      /\ (b.PrObject = a.PrObject) <=> (rets[j].prMonth = rets[1].prMonth)

\* the second call returned, without an error, what the first call returned
C4_Witness ==
    /\ Len(rets) = 2
    /\ rets[2].goneAtStart
    /\ rets[2].err = Nil
    /\ rets[2].res = rets[1].res

\* the other way C4 as stated fails: the second call returned no error and,
\* the month having changed, other keys than the first call
C4_OtherMonth ==
    /\ Len(rets) = 2
    /\ rets[2].goneAtStart
    /\ rets[2].err = Nil
    /\ rets[2].res[1].LogObject # rets[1].res[1].LogObject
    /\ rets[2].res[1].PrObject # rets[1].res[1].PrObject

\* C19: the log key and the snapshot key of every CollectResult are the keys
\* of one month: <YYYYMM>/pr-log/<rest> and <YYYYMM>/pr/<rest> with the same
\* <YYYYMM> and the same <rest>, also when the month changes during the call.
C19_SameMonth ==
    \A j \in DOMAIN rets :
        rets[j].err = Nil =>
           \E m \in DOMAIN MonthOfYear :
               LET rest == "/" \o Meta.Application \o "-" \o Meta.ApplicationID
                               \o "/" \o Meta.Cluster \o "-" \o Meta.ClusterID
                               \o "/" \o Meta.PipelineRun.Name
               IN /\ rets[j].res[1].LogObject = "2024" \o MonthOfYear[m] \o "/pr-log" \o rest
                  /\ rets[j].res[1].PrObject = "2024" \o MonthOfYear[m] \o "/pr" \o rest

\* where C19 holds: both keys of a result are computed in the same month
C19_SameMonthIfNoTick ==
    \A j \in DOMAIN rets :
        (rets[j].err = Nil /\ rets[j].logMonth = rets[j].prMonth) =>
           /\ rets[j].res[1].LogObject = getPathForPrLog(Meta, rets[j].logMonth)
           /\ rets[j].res[1].PrObject = getPathForPr(Meta, rets[j].logMonth)

\* where C19 fails: a call returned a result whose log key is of January and
\* whose snapshot key is of February
C19_Crossed ==
    /\ Len(rets) >= 1
    /\ rets[1].err = Nil
    /\ rets[1].res[1].LogObject = "202401/pr-log/shop-7/prod-3/build-42"
    /\ rets[1].res[1].PrObject = "202402/pr/shop-7/prod-3/build-42"

\* C5: after both objects were put, a DeletePipelineRun that reports NotFound
\* makes Collect return the CollectResult it built (bucket, the two keys of
\* this call, the run's result and times) and no error; a DeletePipelineRun
\* that fails otherwise makes Collect return that error and no result, and the
\* two objects and the audit line of the call stay where they are.
C5_DeleteOutcome ==
    (Returned /\ ops # <<>> /\ LastOp.op = "DeletePipelineRun") =>
       /\ LastOp.out = "notfound" =>
            /\ LastRet.err = Nil
            /\ LastRet.res =
                 <<[Bucket |-> Bucket, LogObject |-> loc.logPath, PrObject |-> loc.prPath,
                    Result |-> Run.Result, StartTime |-> Run.StartTime,
                    CompletionTime |-> Run.CompletionTime]>>
            /\ LogStored /\ PrStored
       /\ LastOp.out = "err" =>
            /\ LastRet.err # Nil
            /\ LastRet.res = <<>>
            /\ LogStored /\ PrStored
            /\ AuditedThisCall

\* DeletePipelineRun reported NotFound and Collect returned its result
C5_Witness ==
    /\ Returned
    /\ ops # <<>>
    /\ LastOp = [op |-> "DeletePipelineRun", out |-> "notfound"]
    /\ LastRet.err = Nil
    /\ Len(LastRet.res) = 1
    /\ LogStored /\ PrStored

\* the other half of C5's case: DeletePipelineRun failed while the run exists
C5_DeleteFailed ==
    /\ Returned
    /\ ops # <<>>
    /\ LastOp = [op |-> "DeletePipelineRun", out |-> "err"]
    /\ runExists
    /\ AuditedThisCall

\* C6: a failure of any step before the deletion (opening the log stream,
\* signing either URL, putting either object, the json.Marshal of the snapshot) is the last
\* thing the Collect call does: it returns an error and no result, no audit
\* line is appended for the call, and no operation of the store or of the
\* orchestrator is invoked twice in one call.
C6_FailureAborts ==
    /\ \A i, j \in DOMAIN ops : ops[i].op = ops[j].op => i = j
    /\ \A i \in DOMAIN ops :
          (ops[i].out # "ok" /\ ops[i].op # "DeletePipelineRun") =>
             /\ i = Len(ops)
             /\ Returned
             /\ LastRet.res = <<>>
             /\ LastRet.err # Nil
             /\ ~AuditedThisCall
             /\ ~Invoked("DeletePipelineRun")

\* the put of the snapshot failed after the log was stored
C6_Witness ==
    /\ Returned
    /\ ops # <<>>
    /\ LastOp = [op |-> "PutObject:pr", out |-> "err"]
    /\ LogStored
    /\ ~PrStored
    /\ LastRet.res = <<>>

Failed(op) == \E i \in DOMAIN ops : ops[i].op = op /\ ops[i].out # "ok"

\* C16: in a Collect call the PutObject of the log (of the snapshot) comes
\* after a GetSignedObjectURL for the log key (the snapshot key) that
\* returned an URL; the URL is issued while no object is stored under the key;
\* and when the signing fails the object is not put and the key stays empty.
C16_SignBeforePut ==
    /\ \A i \in DOMAIN ops :
          /\ ops[i].op = "PutObject:log" => SucceededBefore("GetSignedObjectURL:log", i)
          /\ ops[i].op = "PutObject:pr" => SucceededBefore("GetSignedObjectURL:pr", i)
    /\ (Succeeded("GetSignedObjectURL:log") /\ ~Invoked("PutObject:log")) =>
          /\ loc.logURL = SignedURL(loc.logPath)
          /\ loc.logPath \notin DOMAIN store
    /\ (Succeeded("GetSignedObjectURL:pr") /\ ~Invoked("PutObject:pr")) =>
          /\ loc.prURL = SignedURL(loc.prPath)
          /\ loc.prPath \notin DOMAIN store
    /\ Failed("GetSignedObjectURL:log") =>
          /\ ~Invoked("PutObject:log")
          /\ loc.logPath \notin DOMAIN store
    /\ Failed("GetSignedObjectURL:pr") =>
          /\ ~Invoked("PutObject:pr")
          /\ loc.prPath \notin DOMAIN store

\* the URL of the snapshot is issued and the snapshot is not yet put
C16_Witness ==
    /\ pc = "putPr"
    /\ Succeeded("GetSignedObjectURL:pr")
    /\ loc.prURL = SignedURL(loc.prPath)
    /\ loc.prPath \notin DOMAIN store
    /\ LogStored

\* the other case of C16: the signing of the snapshot URL failed and Collect
\* returned, the log stored and the snapshot not
C16_SignFailed ==
    /\ Returned
    /\ ops # <<>>
    /\ LastOp = [op |-> "GetSignedObjectURL:pr", out |-> "err"]
    /\ LogStored
    /\ loc.prPath \notin DOMAIN store

\* the audit lines of the running (or last) Collect call
AuditLines == {i \in DOMAIN auditTrail : auditTrail[i].call = callNo}

C18_Whole ==
    /\ Len(auditTrail) = 1
    /\ auditTrail[1].marshalled = (5 * 1024 * 1024) \div 2 - 1
    /\ auditTrail[1].len = auditTrail[1].marshalled

\* both objects are put and the line is not yet appended: the next step of the
\* caller appends it
C18_BeforeAppend ==
    /\ pc = "audit"
    /\ LogStored /\ PrStored
    /\ auditTrail = <<>>

---------------------------------------------------------------------------
(* Properties of the merge *)

RECURSIVE Render(_)
\* the entries of the events rcv, one after the other
Render(rcv) ==
    IF rcv = <<>> THEN ""
    ELSE (IF Head(rcv).src = "err" THEN FormatErr(Head(rcv)) ELSE FormatLog(Head(rcv)))
            \o Render(Tail(rcv))

RECURSIVE From(_, _)
\* the events of rcv that came from source src, in order
From(rcv, src) ==
    IF rcv = <<>> THEN <<>>
    ELSE (IF Head(rcv).src = src THEN <<Head(rcv)>> ELSE <<>>) \o From(Tail(rcv), src)

\* ioutil.ReadAll has returned in the running call
Drained == callNo >= 1 /\ (pc = "putLog" \/ Invoked("PutObject:log"))

\* C2: whatever the interleaving of the two producers, the worker takes the
\* events of each channel in the order they were sent, the bytes read from the
\* pipe so far plus the bytes of the write in progress are the entries of the
\* events received so far in the order of their receipt, and when the drain
\* has returned every event sent on either channel was received and the
\* drained bytes, which are the bytes put as the log object, are the entries of
\* all of them in the order of receipt.
C2_MergeComplete ==
    callNo >= 1 /\ W.st # "none" =>
       /\ From(W.received, "log") \o W.logScript = W.sentLog
       /\ From(W.received, "err") \o W.errScript = W.sentErr
       /\ loc.buf \o W.pending = Render(W.received)
       /\ Drained =>
            /\ Len(W.received) = Len(W.sentLog) + Len(W.sentErr)
            /\ From(W.received, "log") = W.sentLog
            /\ From(W.received, "err") = W.sentErr
            /\ loc.buf = Render(W.received)
       /\ Succeeded("PutObject:log") => store[loc.logPath].text = Render(W.received)

\* a stored log of three line events with the error event between them
C2_Witness ==
    /\ Succeeded("PutObject:log")
    /\ Len(W.sentLog) = MaxLines
    /\ Len(W.sentErr) = 1
    /\ W.received[2].src = "err"
    /\ store[loc.logPath].text = Render(W.received)

\* the worker has just received e and is writing its entry
Writing(c, e) ==
    /\ wk[c].st \in {"write", "blocked"}
    /\ wk[c].received # <<>>
    /\ wk[c].received[Len(wk[c].received)] = e

\* C3 as stated: a line event is written as "[task:step] text\n", a sentinel
\* as "\n", an error event as "text\n", and the three line events of the
\* example merge to "[t1:s1] hello\n\n[t1:s2] world\n".
C3_Original ==
    /\ \A c \in Calls : \A e \in LogEvents \cup ErrEvents :
          Writing(c, e) =>
             wk[c].pending =
                IF e.src = "err" THEN e.Log \o "\n"
                ELSE IF e.Log = EOFLOG THEN "\n"
                ELSE "[" \o e.Task \o ":" \o e.Step \o "] " \o e.Log \o "\n"
    /\ (Drained /\ W.sentLog = <<Hello, Sentinel, World>> /\ W.sentErr = <<>>) =>
          loc.buf = "[t1:s1] hello\n\n[t1:s2] world\n"

\* C3 (amended): a line event is written as "[task : step] text\n", with a
\* space on either side of the colon, a sentinel as "\n", an error event as
\* "text\n", and the three line events of the example merge to
\* "[t1 : s1] hello\n\n[t1 : s2] world\n".
C3_Format ==
    /\ \A c \in Calls : \A e \in LogEvents \cup ErrEvents :
          Writing(c, e) =>
             wk[c].pending =
                IF e.src = "err" THEN e.Log \o "\n"
                ELSE IF e.Log = EOFLOG THEN "\n"
                ELSE "[" \o e.Task \o " : " \o e.Step \o "] " \o e.Log \o "\n"
    /\ (Drained /\ W.sentLog = <<Hello, Sentinel, World>> /\ W.sentErr = <<>>) =>
          loc.buf = "[t1 : s1] hello\n\n[t1 : s2] world\n"

\* the example's events were merged and drained
C3_Witness ==
    /\ Drained
    /\ W.sentLog = <<Hello, Sentinel, World>>
    /\ W.sentErr = <<>>
    /\ loc.buf = "[t1 : s1] hello\n\n[t1 : s2] world\n"

\* collectLog has spawned its worker
Spawned == callNo >= 1 /\ W.st # "none"

\* collectLog has returned, with a result or with an error
CollectLogReturned == callNo >= 1 /\ pc \notin {"openLog", "signLog", "drain", "putLog"}

\* the worker has closed the write side of the pipe
PipeClosed == callNo >= 1 /\ W.wClosed

\* C12: once collectLog has opened the two channels and started its worker,
\* if the producers deliver their events and close and the calls to the store
\* return, then in the end the worker has closed the write side of the pipe
\* and collectLog has returned, and a drain that has begun sees the end of
\* the stream.
C12_MergeTerminates ==
    /\ Spawned ~> (PipeClosed /\ CollectLogReturned)
    /\ (pc = "drain") ~> Drained

\* the part of C12 that holds: once the caller drains the pipe, the worker and
\* the drain do not block each other; the worker closes the pipe, the drain
\* sees the end of the stream and collectLog returns
C12_DrainTerminates ==
    (pc = "drain") ~> (PipeClosed /\ Drained /\ CollectLogReturned)

\* where C12 fails: collectLog has returned because the signing failed and
\* the worker, both channels closed behind it, waits in Write for a Read
C12_Stuck ==
    /\ Returned
    /\ LastOp = [op |-> "GetSignedObjectURL:log", out |-> "err"]
    /\ W.st = "blocked"
    /\ W.logClosed /\ W.errClosed
    /\ ~W.wClosed

\* C17: once the Collect call has returned, with a result or with an error,
\* the worker it started ends, given that the producers close their channels
\* when their events are taken.
C17_WorkerTerminates ==
    (Returned /\ Spawned) ~> (callNo >= 1 /\ W.st = "done")

\* the worker of a call that returned after its drain has ended before the
\* call returned
C17_EndedIfDrained ==
    (Returned /\ Spawned /\ Invoked("PutObject:log")) => W.st = "done"

\* C13: the worker closes the write side of the pipe, and the drain sees the
\* end of the stream, only when both channels are closed and their closure
\* was seen by the worker; by then every event of either channel, those
\* delivered after the other channel closed among them, was received and its
\* entry read from the pipe.
C13_IndependentClosure ==
    Spawned =>
       /\ (W.wClosed \/ W.st = "done" \/ Drained) =>
             /\ W.logClosed /\ W.errClosed
             /\ ~W.logC /\ ~W.errC
             /\ W.wClosed
             /\ From(W.received, "log") = W.sentLog
             /\ From(W.received, "err") = W.sentErr
             /\ W.pending = ""
             /\ loc.buf = Render(W.received)
       /\ (~W.logClosed \/ ~W.errClosed) => ~W.wClosed

\* the worker has seen logC closed and is writing the entry of an error event
\* it received after that
C13_Witness ==
    /\ Spawned
    /\ ~W.logC
    /\ W.errC
    /\ ~W.errClosed
    /\ W.st = "blocked"
    /\ W.received[Len(W.received)].src = "err"
    /\ ~W.wClosed

\* the other way round: errC was seen closed and a line event received after
\* that is being written
C13_LogAfterErrClosed ==
    /\ Spawned
    /\ ~W.errC
    /\ W.logC
    /\ W.st = "blocked"
    /\ W.received[Len(W.received)].src = "log"
    /\ ~W.wClosed

\* C14: as long as one of the two channels is not closed, the worker has not
\* closed the pipe and has not ended, the drain has not returned, no object
\* was put and DeletePipelineRun was not asked; so where a channel never
\* closes none of these ever happens.
C14_OpenSourceBlocks ==
    (Spawned /\ (~W.logClosed \/ ~W.errClosed)) =>
       /\ ~W.wClosed
       /\ W.st # "done"
       /\ ~Drained
       /\ pc \in {"signLog", "drain", "idle"}
       /\ ~Invoked("PutObject:log")
       /\ ~Invoked("PutObject:pr")
       /\ ~Invoked("DeletePipelineRun")
       /\ DOMAIN store = {}
       /\ auditTrail = <<>>

\* the caller drains and the worker, having written all it received and seen
\* errC closed, waits for logC, which has nothing more to deliver and is open
C14_Witness ==
    /\ Spawned
    /\ pc = "drain"
    /\ ~W.logClosed
    /\ W.logScript = <<>>
    /\ ~W.errC
    /\ W.st = "select"
    /\ W.received # <<>>
    /\ loc.buf = Render(W.received)
    /\ DOMAIN store = {}

\* C15: the bytes read from the pipe are the entries of all events the worker
\* has received, or of all but the last one, whose entry is then the write in
\* progress: the worker holds at most one event the reader has not taken,
\* and it receives no other while it does.
C15_Rendezvous ==
    Spawned =>
       LET n == Len(W.received) IN
       \/ /\ W.pending = ""
          /\ loc.buf = Render(W.received)
       \/ /\ n >= 1
          /\ W.st \in {"write", "blocked"}
          /\ W.pending = Render(<<W.received[n]>>)
          /\ loc.buf = Render(SubSeq(W.received, 1, n - 1))

\* the worker waits in Write with the entry of the first event while the caller
\* has not begun to read, and the events behind it stay in their channels
C15_Witness ==
    /\ Spawned
    /\ pc = "signLog"
    /\ W.st = "blocked"
    /\ Len(W.received) = 1
    /\ W.logScript # <<>>
    /\ W.errScript # <<>>
    /\ loc.buf = ""

---------------------------------------------------------------------------
(* Properties of the read path *)

\* C7: GetPipelineRun for a run record with a snapshot key makes one call, the
\* GetObject of that key, and none to the orchestrator; a missing key or a body
\* that is no snapshot is an error and no result, and a result is the run of
\* the stored snapshot. For a record without a snapshot key it makes one
\* call, GetPipelineRunByID of the record's CIEventID, and none to the store:
\* NotFound gives no result and no error, another failure gives the error.
C7_GetPipelineRun ==
    rd.op = "GetPipelineRun" =>
       /\ Len(rd.calls) = 1
       /\ IF rd.pr.PrObject # ""
          THEN /\ rd.calls[1].svc = "s3.GetObject"
               /\ rd.calls[1].arg = rd.pr.PrObject
               /\ rd.calls[1].out # "ok" => (rd.err # Nil /\ rd.res = <<>>)
               /\ (rd.calls[1].out = "ok" /\ store[rd.pr.PrObject].kind # "envelope") =>
                     (rd.err # Nil /\ rd.res = <<>>)
               /\ (rd.calls[1].out = "ok" /\ store[rd.pr.PrObject].kind = "envelope") =>
                     (rd.err = Nil /\ rd.res = <<store[rd.pr.PrObject].PipelineRun>>)
          ELSE /\ rd.calls[1].svc = "tekton.GetPipelineRunByID"
               /\ rd.calls[1].arg = rd.pr.CIEventID
               /\ rd.calls[1].out = "notfound" => (rd.err = Nil /\ rd.res = <<>>)
               /\ rd.calls[1].out = "err" => (rd.err # Nil /\ rd.res = <<>>)
               /\ rd.calls[1].out = "ok" => (rd.err = Nil /\ rd.res = <<Run>>)

\* the snapshot key is recorded and the store lacks it, although the
\* orchestrator still holds the run
C7_Witness ==
    /\ rd.op = "GetPipelineRun"
    /\ rd.pr.PrObject # ""
    /\ rd.calls[1].out = "nosuchkey"
    /\ rd.err # Nil
    /\ runExists

\* the other case of C7: no snapshot key, and the orchestrator reports NotFound
C7_NotFoundIsNil ==
    /\ rd.op = "GetPipelineRun"
    /\ rd.pr.PrObject = ""
    /\ rd.calls[1].out = "notfound"
    /\ rd.err = Nil
    /\ rd.res = <<>>

\* C8 as stated: GetPipelineRunLog reads the store, and only the store, for a
\* record with a log key, and asks the orchestrator, and only it, for a
\* record without one, whatever the snapshot key.
C8_Original ==
    rd.op = "GetPipelineRunLog" =>
       /\ Len(rd.calls) = 1
       /\ IF rd.pr.LogObject # ""
          THEN rd.calls[1].svc = "s3.GetObject" /\ rd.calls[1].arg = rd.pr.LogObject
          ELSE rd.calls[1].svc = "tekton.GetPipelineRunLogByID"
                  /\ rd.calls[1].arg = rd.pr.CIEventID

\* C8 (amended): GetPipelineRunLog chooses its path by the snapshot key of the
\* record (PrObject), not by its log key: with a snapshot key it makes one
\* call, the GetObject of the record's log key, be that key empty or not, and
\* returns the bytes stored under it or the error; without a snapshot key it
\* makes one call, GetPipelineRunLogByID of the record's CIEventID, and does
\* not read the store, be the log key recorded or not.
C8_GetPipelineRunLog ==
    rd.op = "GetPipelineRunLog" =>
       /\ Len(rd.calls) = 1
       /\ IF rd.pr.PrObject # ""
          THEN /\ rd.calls[1].svc = "s3.GetObject"
               /\ rd.calls[1].arg = rd.pr.LogObject
               /\ rd.calls[1].out = "ok" =>
                     /\ rd.err = Nil
                     /\ rd.res = <<[kind |-> "LogBytes", body |-> store[rd.pr.LogObject]]>>
               /\ rd.calls[1].out # "ok" => (rd.err # Nil /\ rd.res = <<>>)
          ELSE /\ rd.calls[1].svc = "tekton.GetPipelineRunLogByID"
               /\ rd.calls[1].arg = rd.pr.CIEventID
               /\ rd.calls[1].out = "ok" =>
                     /\ rd.err = Nil
                     /\ rd.res = <<[kind |-> "Channels", id |-> rd.pr.CIEventID]>>
               /\ rd.calls[1].out # "ok" => (rd.err # Nil /\ rd.res = <<>>)

\* a record with a log key that is stored and no snapshot key: the
\* orchestrator is asked
C8_Witness ==
    /\ rd.op = "GetPipelineRunLog"
    /\ rd.pr.PrObject = ""
    /\ rd.pr.LogObject \in DOMAIN store
    /\ rd.calls[1].svc = "tekton.GetPipelineRunLogByID"

\* the opposite mix: a snapshot key and no log key, and the store is read
C8_EmptyLogKey ==
    /\ rd.op = "GetPipelineRunLog"
    /\ rd.pr.PrObject # ""
    /\ rd.pr.LogObject = ""
    /\ rd.calls[1].svc = "s3.GetObject"

---------------------------------------------------------------------------
(* Properties of cutByteInMiddle; headSize is begin, tailSize is len - end *)

CutDone == cut.phase = "out"

Payload == SubSeq(cut.arr, 1, cut.len)

\* C9: a payload shorter than limit is returned as it is; for a payload of at
\* least limit bytes, whenever cutByteInMiddle returns (the two sizes are
\* within the slice), the result is headSize + 6 + tailSize bytes long.
C9_CutLength ==
    CutDone =>
       /\ cut.len < cut.limit => (~cut.panic /\ cut.out = Payload)
       /\ (cut.len >= cut.limit /\ ~cut.panic) =>
             Len(cut.out) = cut.begin + 6 + (cut.len - cut.end)

\* a payload of limit bytes or more is cut to a length other than its own
C9_Witness ==
    /\ CutDone
    /\ cut.limit > 0
    /\ cut.len >= cut.limit
    /\ ~cut.panic
    /\ cut.begin > 0
    /\ cut.end < cut.len
    /\ Len(cut.out) = cut.begin + 6 + (cut.len - cut.end)
    /\ Len(cut.out) # cut.len

\* C10: for a payload of at least limit bytes and sizes within the payload,
\* the result is the first headSize bytes of the payload, the marker, and the
\* last tailSize bytes of the payload.
C10_CutContent ==
    (/\ CutDone
     /\ cut.len >= cut.limit
     /\ 0 <= cut.begin /\ cut.begin <= cut.len
     /\ 0 <= cut.end /\ cut.end <= cut.len) =>
       /\ ~cut.panic
       /\ cut.out = SubSeq(Payload, 1, cut.begin) \o Marker
                       \o SubSeq(Payload, cut.end + 1, cut.len)

\* C10 holds where the marker is not written over the tail: the tail starts
\* behind the marker, or the first append has no room in the array
C10_NoOverlap ==
    (/\ CutDone
     /\ cut.len >= cut.limit
     /\ 0 <= cut.begin /\ cut.begin <= cut.len
     /\ 0 <= cut.end /\ cut.end <= cut.len
     /\ (cut.begin + 6 <= cut.end \/ cut.begin + 6 > Len(cut.arr) \/ cut.end = cut.len)) =>
       /\ ~cut.panic
       /\ cut.out = SubSeq(Payload, 1, cut.begin) \o Marker
                       \o SubSeq(Payload, cut.end + 1, cut.len)

---------------------------------------------------------------------------
(* Properties of the storage keys *)

KeysDone == keys.phase = "out"

\* C11: the snapshot key of a run is <YYYYMM>/pr/<application>-<applicationID>/
\* <cluster>-<clusterID>/<runName> and its log key is the same with pr-log for
\* pr; the run "build-42" of application "shop"/"7" and cluster "prod"/"3" gets
\* "202401/pr/shop-7/prod-3/build-42" and "202401/pr-log/shop-7/prod-3/build-42"
\* in January 2024; runs of equal fields get equal keys in one month; and no
\* snapshot key is a log key.
C11_KeyLayout ==
    KeysDone =>
       /\ \A i \in 1..2 :
             LET f == IF i = 1 THEN keys.a ELSE keys.b
                 rest == "/" \o f.Application \o "-" \o f.ApplicationID
                             \o "/" \o f.Cluster \o "-" \o f.ClusterID \o "/" \o f.Name
             IN /\ keys.pr[i] = "2024" \o MonthOfYear[keys.month] \o "/pr" \o rest
                /\ keys.log[i] = "2024" \o MonthOfYear[keys.month] \o "/pr-log" \o rest
       /\ \A i, j \in 1..2 : keys.pr[i] # keys.log[j]
       /\ keys.a = keys.b => (keys.pr[1] = keys.pr[2] /\ keys.log[1] = keys.log[2])
       /\ (keys.a = RunIds /\ keys.month = 1) =>
             /\ keys.pr[1] = "202401/pr/shop-7/prod-3/build-42"
             /\ keys.log[1] = "202401/pr-log/shop-7/prod-3/build-42"

\* the keys of the run "build-42" in January 2024, beside those of a run whose
\* fields hold '-' and '/'
C11_Witness ==
    /\ KeysDone
    /\ keys.a = RunIds
    /\ keys.month = 1
    /\ keys.b.Application = "a-a"
    /\ keys.b.Name = "a/a"
    /\ keys.pr[1] = "202401/pr/shop-7/prod-3/build-42"
    /\ keys.log[1] = "202401/pr-log/shop-7/prod-3/build-42"
    /\ keys.pr[2] # keys.log[2]

\* C20: in one month, two runs that differ in one of application, application
\* ID, cluster, cluster ID and run name get different snapshot keys and
\* different log keys, whatever bytes the fields hold.
C20_Injective ==
    (KeysDone /\ keys.a # keys.b) =>
       /\ keys.pr[1] # keys.pr[2]
       /\ keys.log[1] # keys.log[2]

\* where C20 fails: application "a-a" with ID "a" and application "a" with ID
\* "a-a" get the same keys
C20_Collision ==
    /\ KeysDone
    /\ keys.a = [Application |-> "a-a", ApplicationID |-> "a", Cluster |-> "a",
                  ClusterID |-> "a", Name |-> "a"]
    /\ keys.b = [Application |-> "a", ApplicationID |-> "a-a", Cluster |-> "a",
                  ClusterID |-> "a", Name |-> "a"]
    /\ keys.pr[1] = keys.pr[2]
    /\ keys.log[1] = keys.log[2]

\* where C20 holds: fields that hold neither '-' nor '/'
C20_PlainFields ==
    (/\ KeysDone
     /\ keys.a # keys.b
     /\ \A f \in {keys.a, keys.b} :
           {f.Application, f.ApplicationID, f.Cluster, f.ClusterID}
              \subseteq {"a", "shop", "7", "prod", "3"}) =>
       /\ keys.pr[1] # keys.pr[2]
       /\ keys.log[1] # keys.log[2]

====
